---- MODULE Spec2Model ----
(***************************************************************************)
(* Model of script/example/capture.py: the startup sequence, press_button, *)
(* and the capture / detect / pause tick loop, together with the           *)
(* environment the script polls (toggle key, preview key, window).         *)
(* Time is counted in tenths of a second.                                   *)
(***************************************************************************)
EXTENDS Integers, Sequences, FiniteSets, TLC

VARIABLES
    pc,             \* position of the script
    slp,            \* tenths of a second left in the current time.sleep
    found,          \* gw.getWindowsWithTitle(window_title) is non-empty
    bounds,         \* the window's live <<left, top, width, height>>
    active,         \* window.isActive
    pKey,           \* keyboard.is_pressed('p')
    window,         \* the script's window handle ("none" before line 54)
    width, height, center_x, center_y,
    title_positions,
    pb,             \* the arguments of the running press_button call
    paused,
    screenshot,     \* the PIL image returned by pyautogui.screenshot
    frame,          \* the numpy array shown and annotated
    lastKey,        \* the value returned by the last cv2.waitKey(1)
    pausedWin,      \* window 'Paused - Press P to Resume' is open
    liveWin,        \* window 'Window Capture' is open
    trace,          \* delays and input events seen by the input sink
    err,            \* message of the exception that ended the script
    holdToggles,    \* flips of paused since the last press-edge of 'p'
    edgeInWindow,   \* the last press-edge of 'p' fell inside a debounce sleep
    pauseCaptures,  \* screenshots taken in the current pause episode
    polledIdle      \* a pass of the inner poll loop found 'p' up in this episode

vars == <<pc, slp, found, bounds, active, pKey, window, width, height,
          center_x, center_y, title_positions, pb, paused, screenshot, frame,
          lastKey, pausedWin, liveWin, trace, err, holdToggles,
          edgeInWindow, pauseCaptures, polledIdle>>

----------------------------------------------------------------------------
(* Bounds of the model *)

MaxContours == 1
MaxCount == 2

(* Timing and geometry constants of the script, in tenths of a second / px *)

StartSleep == 10
HoldSleep == 1
Settle == 30
Debounce == 5
FocusSettle == 1
TickSleep == 1
MinSize == 50
OrdQ == 113
ByteMask == 256

(* IrisuButton *)
LClick == 1
RClick == 2
Esc == 3
IrisuButton == {LClick, RClick, Esc}

(* Window geometries the environment can give the window *)
WinBounds == { <<100, 100, 800, 600>>, <<141, 120, 801, 601>> }

(* Bounding rectangles cv2.boundingRect can return for a contour *)
Rect(x, y, w, h) == [x |-> x, y |-> y, w |-> w, h |-> h]
Rects == { Rect(10, 20, 50, 60), Rect(10, 20, 60, 50), Rect(10, 20, 51, 51),
           Rect(0, 0, 51, 510), Rect(0, 0, 52, 510),
           Rect(0, 0, 510, 51), Rect(0, 0, 510, 52) }

ContourLists == UNION { [1..n -> Rects] : n \in 0..MaxContours }

(* Values cv2.waitKey(1) can return: no key, 'q', 'q' with flag bits *)
Keys == { -1, 113, 1048689 }

NoFrame == [region |-> <<>>, order |-> "none", contours |-> <<>>, drawn |-> {}]
NoCall == [type |-> 0, x |-> 0, y |-> 0, d1 |-> 0, d2 |-> 0, ret |-> "none"]

Terminal == {"done", "fatal", "interrupted", "returned"}
DebouncePcs == {"toggleSleep", "resumeSleep"}
LoggedSleepPcs == {"pb_sleep1", "pb_hold", "settle"}
SleepPcs == LoggedSleepPcs \cup DebouncePcs \cup {"focusSleep", "tickSleep"}

----------------------------------------------------------------------------
(* Entries of the input-sink trace *)

Delay(n) == [kind |-> "delay", dev |-> "none", btn |-> "none", x |-> 0, y |-> 0, n |-> n]
Down(dev, btn, x, y) == [kind |-> "down", dev |-> dev, btn |-> btn, x |-> x, y |-> y, n |-> 0]
Up(dev, btn, x, y) == [kind |-> "up", dev |-> dev, btn |-> btn, x |-> x, y |-> y, n |-> 0]

Min(a, b) == IF a < b THEN a ELSE b

----------------------------------------------------------------------------
(* Pure functions of the script *)

\* get_window_data: the values computed from the window found
WindowData(b) ==
    [width |-> b[3], height |-> b[4],
     center_x |-> b[1] + (b[3] \div 2),
     center_y |-> b[2] + (b[4] \div 2)]

\* variant: the first title position is offset upwards
irisu_get_title_pos_m(cx, cy) ==
    << <<cx, cy - 20>>, <<cx + 100, cy + 100>>, <<cx + 150, cy + 150>>, <<cx, cy - 150>> >>

irisu_get_title_pos(cx, cy) ==
    << <<cx, cy + 20>>, <<cx + 100, cy + 100>>, <<cx + 150, cy + 150>>, <<cx, cy - 150>> >>

\* float(w) / h as an exact ratio <<numerator, denominator>>, h > 0
AspectRatio(w, h) == <<w, h>>
\* a < b for ratios with positive denominators
RatioLess(a, b) == a[1] * b[2] < b[1] * a[2]

\* variant: the width test is not strict
KeepRect_m(r) ==
    LET aspect_ratio == AspectRatio(r.w, r.h)
    IN  /\ RatioLess(<<1, 10>>, aspect_ratio)
        /\ RatioLess(aspect_ratio, <<10, 1>>)
        /\ r.w >= MinSize
        /\ r.h > MinSize

\* the condition of line 114
KeepRect(r) ==
    LET aspect_ratio == AspectRatio(r.w, r.h)
    IN  /\ RatioLess(<<1, 10>>, aspect_ratio)
        /\ RatioLess(aspect_ratio, <<10, 1>>)
        /\ r.w > MinSize
        /\ r.h > MinSize

\* the for loop of lines 107-116 from contour i on: acc are the contours
\* drawn onto the frame (and printed) so far
RECURSIVE ContourLoop(_, _, _)
ContourLoop(cs, i, acc) ==
    IF i > Len(cs) THEN acc
    ELSE IF KeepRect(cs[i])
         THEN ContourLoop(cs, i + 1, acc \cup {i})
         ELSE ContourLoop(cs, i + 1, acc)

\* np.array(screenshot) followed by cv2.cvtColor(frame, cv2.COLOR_RGB2BGR)
ToBGR(img) == [img EXCEPT !.order = IF img.order = "RGB" THEN "BGR" ELSE "RGB"]

\* pyautogui.screenshot(region=...) of a screen showing contours cs
Shot(region, cs) == [region |-> region, order |-> "RGB", contours |-> cs, drawn |-> {}]

\* cv2.waitKey(1) & 0xFF == ord('q')
IsQuit(k) == (k % ByteMask) = OrdQ

----------------------------------------------------------------------------
envVars == <<found, bounds, active, pKey>>
histVars == <<holdToggles, edgeInWindow, pauseCaptures, polledIdle>>
winVars == <<window, width, height, center_x, center_y, title_positions>>
imgVars == <<screenshot, frame>>
uiVars == <<lastKey, pausedWin, liveWin>>

\* State of the script's own variables before line 54
Fresh ==
    /\ window = "none" /\ width = 0 /\ height = 0
    /\ center_x = 0 /\ center_y = 0 /\ title_positions = <<>>
    /\ paused = FALSE
    /\ screenshot = NoFrame /\ frame = NoFrame
    /\ lastKey = -1 /\ pausedWin = FALSE /\ liveWin = FALSE
    /\ err = "none"
    /\ pKey = FALSE
    /\ holdToggles = 0 /\ edgeInWindow = FALSE /\ pauseCaptures = 0
    /\ polledIdle = FALSE

Init ==
    /\ Fresh
    /\ pc = "start"
    /\ slp = 0
    /\ found \in BOOLEAN
    /\ bounds \in WinBounds
    /\ active \in BOOLEAN
    /\ pb = NoCall
    /\ trace = <<>>

----------------------------------------------------------------------------
(* time.sleep *)

\* a tenth of a second passes while the script sleeps
Tick ==
    /\ pc \in SleepPcs
    /\ slp > 0
    /\ slp' = slp - 1
    /\ trace' = IF pc \in LoggedSleepPcs
                THEN [trace EXCEPT ![Len(trace)] = Delay(trace[Len(trace)].n + 1)]
                ELSE trace
    /\ UNCHANGED <<pc, envVars, winVars, pb, paused, imgVars, uiVars, err, histVars>>

----------------------------------------------------------------------------
(* Startup, lines 54-63 *)

\* variant: the empty result of getWindowsWithTitle is not checked
GetWindowData_m ==
    /\ pc = "start"
    /\ window' = "win"
    /\ width' = WindowData(bounds).width
    /\ height' = WindowData(bounds).height
    /\ center_x' = WindowData(bounds).center_x
    /\ center_y' = WindowData(bounds).center_y
    /\ pc' = "line57"
    /\ UNCHANGED <<title_positions, err, slp, envVars, pb, paused, imgVars, uiVars, trace,
                   histVars>>

\* line 54: get_window_data(window_title)
GetWindowData ==
    /\ pc = "start"
    /\ IF ~found
       THEN /\ pc' = "fatal"
            /\ err' = "window not found"
            /\ UNCHANGED winVars
       ELSE /\ window' = "win"
            /\ width' = WindowData(bounds).width
            /\ height' = WindowData(bounds).height
            /\ center_x' = WindowData(bounds).center_x
            /\ center_y' = WindowData(bounds).center_y
            /\ UNCHANGED <<title_positions, err>>
            /\ pc' = "line57"
    /\ UNCHANGED <<slp, envVars, pb, paused, imgVars, uiVars, trace, histVars>>

\* line 57
GetTitlePos ==
    /\ pc = "line57"
    /\ title_positions' = irisu_get_title_pos(center_x, center_y)
    /\ pc' = "line60"
    /\ UNCHANGED <<slp, envVars, window, width, height, center_x, center_y, pb,
                   paused, imgVars, uiVars, trace, err, histVars>>

\* line 60: the call of press_button and its first statement, line 36
CallPressButton ==
    /\ pc = "line60"
    /\ pb' = [type |-> LClick, x |-> title_positions[1][1], y |-> title_positions[1][2],
              d1 |-> StartSleep, d2 |-> HoldSleep, ret |-> "line61"]
    /\ slp' = StartSleep
    /\ trace' = Append(trace, Delay(0))
    /\ pc' = "pb_sleep1"
    /\ UNCHANGED <<envVars, winVars, paused, imgVars, uiVars, err, histVars>>

\* variant: the hold sleep is left out
PBDown_m ==
    /\ pc = "pb_sleep1"
    /\ slp <= 0
    /\ pb.type \in IrisuButton
    /\ trace' = Append(Append(trace,
                    CASE pb.type = LClick -> Down("mouse", "left", pb.x, pb.y)
                      [] pb.type = RClick -> Down("mouse", "right", pb.x, pb.y)
                      [] pb.type = Esc -> Down("key", "esc", 0, 0)),
                    Delay(0))
    /\ slp' = 0
    /\ pc' = "pb_hold"
    /\ UNCHANGED <<envVars, winVars, pb, paused, imgVars, uiVars, err, histVars>>

\* lines 37-39, 41-43, 45-47: the down event of the kind, then the hold sleep
PBDown ==
    /\ pc = "pb_sleep1"
    /\ slp <= 0
    /\ pb.type \in IrisuButton
    /\ trace' = Append(Append(trace,
                    CASE pb.type = LClick -> Down("mouse", "left", pb.x, pb.y)
                      [] pb.type = RClick -> Down("mouse", "right", pb.x, pb.y)
                      [] pb.type = Esc -> Down("key", "esc", 0, 0)),
                    Delay(0))
    /\ slp' = pb.d2
    /\ pc' = "pb_hold"
    /\ UNCHANGED <<envVars, winVars, pb, paused, imgVars, uiVars, err, histVars>>

\* variant: the right click releases the default (left) button
PBUp_m ==
    /\ pc = "pb_hold"
    /\ slp <= 0
    /\ trace' = Append(trace,
                    CASE pb.type = LClick -> Up("mouse", "left", pb.x, pb.y)
                      [] pb.type = RClick -> Up("mouse", "left", pb.x, pb.y)
                      [] pb.type = Esc -> Up("key", "esc", 0, 0))
    /\ pc' = pb.ret
    /\ UNCHANGED <<slp, envVars, winVars, pb, paused, imgVars, uiVars, err, histVars>>

\* lines 40, 44, 48: the up event of the kind, then return
PBUp ==
    /\ pc = "pb_hold"
    /\ slp <= 0
    /\ trace' = Append(trace,
                    CASE pb.type = LClick -> Up("mouse", "left", pb.x, pb.y)
                      [] pb.type = RClick -> Up("mouse", "right", pb.x, pb.y)
                      [] pb.type = Esc -> Up("key", "esc", 0, 0))
    /\ pc' = pb.ret
    /\ UNCHANGED <<slp, envVars, winVars, pb, paused, imgVars, uiVars, err, histVars>>

\* line 61: time.sleep(3)
StartupSettle ==
    /\ pc = "line61"
    /\ slp' = Settle
    /\ trace' = Append(trace, Delay(0))
    /\ pc' = "settle"
    /\ UNCHANGED <<envVars, winVars, pb, paused, imgVars, uiVars, err, histVars>>

\* line 63: paused = False, then the loop is entered
EnterLoop ==
    /\ pc = "settle"
    /\ slp <= 0
    /\ paused' = FALSE
    /\ pc' = "loopTop"
    /\ UNCHANGED <<slp, envVars, winVars, pb, imgVars, uiVars, trace, err, histVars>>

----------------------------------------------------------------------------
(* The tick loop, lines 65-126 *)

\* the statement at position p is reached directly or when the sleep before it ends
At(p, sleepPc) == pc = p \/ (pc = sleepPc /\ slp <= 0)

Flip == holdToggles' = Min(holdToggles + 1, MaxCount)

\* lines 67-69
CheckToggle ==
    /\ At("loopTop", "tickSleep")
    /\ IF pKey
       THEN /\ paused' = ~paused
            /\ slp' = Debounce
            /\ pc' = "toggleSleep"
            /\ Flip
            /\ pauseCaptures' = 0
            /\ polledIdle' = FALSE
       ELSE /\ pc' = "branch"
            /\ UNCHANGED <<paused, slp, holdToggles, pauseCaptures, polledIdle>>
    /\ UNCHANGED <<envVars, winVars, pb, imgVars, uiVars, trace, err, edgeInWindow>>

\* variant: the test of paused is inverted
Branch_m ==
    /\ At("branch", "toggleSleep")
    /\ pc' = IF ~paused THEN "pCapture" ELSE "focus"
    /\ UNCHANGED <<slp, envVars, winVars, pb, paused, imgVars, uiVars, trace, err, histVars>>

\* line 71
Branch ==
    /\ At("branch", "toggleSleep")
    /\ pc' = IF paused THEN "pCapture" ELSE "focus"
    /\ UNCHANGED <<slp, envVars, winVars, pb, paused, imgVars, uiVars, trace, err, histVars>>

\* lines 73-75: the screenshot of the window's current region, or its exception
PausedCapture ==
    /\ pc = "pCapture"
    /\ \E ok \in BOOLEAN :
          IF ok
          THEN /\ \E cs \in ContourLists :
                     /\ screenshot' = Shot(bounds, cs)
                     /\ frame' = ToBGR(Shot(bounds, cs))
               /\ pauseCaptures' = Min(pauseCaptures + 1, MaxCount)
               /\ pc' = "pShow"
               /\ err' = err
          ELSE /\ pc' = "fatal"
               /\ err' = "capture failed"
               /\ UNCHANGED <<screenshot, frame, pauseCaptures>>
    /\ UNCHANGED <<slp, envVars, winVars, pb, paused, uiVars, trace,
                   holdToggles, edgeInWindow, polledIdle>>

\* variant: the paused preview honours the quit key
PausedShow_m ==
    /\ pc = "pShow"
    /\ pausedWin' = TRUE
    /\ \E k \in Keys :
          /\ lastKey' = k
          /\ pc' = IF IsQuit(k) THEN "cleanup" ELSE "pPoll"
    /\ UNCHANGED <<slp, envVars, winVars, pb, paused, imgVars, liveWin, trace, err, histVars>>

\* lines 76-77: cv2.imshow of the paused preview; the key of cv2.waitKey(1) is dropped
PausedShow ==
    /\ pc = "pShow"
    /\ pausedWin' = TRUE
    /\ \E k \in Keys : lastKey' = k
    /\ pc' = "pPoll"
    /\ UNCHANGED <<slp, envVars, winVars, pb, paused, imgVars, liveWin, trace, err, histVars>>

\* variant: a pass that finds 'p' up goes back to capture a new preview frame
PausedPoll_m ==
    /\ pc = "pPoll"
    /\ IF ~paused
       THEN /\ pc' = "loopTop"
            /\ UNCHANGED <<paused, slp, holdToggles, polledIdle>>
       ELSE IF pKey
            THEN /\ paused' = FALSE
                 /\ slp' = Debounce
                 /\ pc' = "resumeSleep"
                 /\ Flip
                 /\ polledIdle' = FALSE
            ELSE /\ polledIdle' = TRUE
                 /\ pc' = "pCapture"
                 /\ UNCHANGED <<paused, slp, holdToggles>>
    /\ UNCHANGED <<envVars, winVars, pb, imgVars, uiVars, trace, err, edgeInWindow,
                   pauseCaptures>>

\* lines 78-81: one pass of the inner poll loop
PausedPoll ==
    /\ pc = "pPoll"
    /\ IF ~paused
       THEN /\ pc' = "loopTop"
            /\ UNCHANGED <<paused, slp, holdToggles, polledIdle>>
       ELSE IF pKey
            THEN /\ paused' = FALSE
                 /\ slp' = Debounce
                 /\ pc' = "resumeSleep"
                 /\ Flip
                 /\ polledIdle' = FALSE
            ELSE /\ polledIdle' = TRUE
                 /\ UNCHANGED <<pc, paused, slp, holdToggles>>
    /\ UNCHANGED <<envVars, winVars, pb, imgVars, uiVars, trace, err, edgeInWindow,
                   pauseCaptures>>

\* variant: the paused preview is not destroyed
PausedResume_m ==
    /\ pc = "resumeSleep"
    /\ slp <= 0
    /\ pc' = "loopTop"
    /\ UNCHANGED <<slp, envVars, winVars, pb, paused, imgVars, uiVars, trace, err, histVars>>

\* lines 82-84: destroyWindow, break, continue
PausedResume ==
    /\ pc = "resumeSleep"
    /\ slp <= 0
    /\ pausedWin' = FALSE
    /\ pc' = "loopTop"
    /\ UNCHANGED <<slp, envVars, winVars, pb, paused, imgVars, lastKey, liveWin, trace,
                   err, histVars>>

\* variant: no settle delay after the activation
Focus_m ==
    /\ pc = "focus"
    /\ active' = TRUE
    /\ pc' = "capture"
    /\ UNCHANGED <<slp, found, bounds, pKey, winVars, pb, paused, imgVars, uiVars, trace, err,
                   histVars>>

\* lines 87-89
Focus ==
    /\ pc = "focus"
    /\ IF ~active
       THEN /\ active' = TRUE
            /\ slp' = FocusSettle
            /\ pc' = "focusSleep"
       ELSE /\ pc' = "capture"
            /\ UNCHANGED <<active, slp>>
    /\ UNCHANGED <<found, bounds, pKey, winVars, pb, paused, imgVars, uiVars, trace, err,
                   histVars>>

\* variant: the region is taken from the geometry read at startup
Capture_m ==
    /\ At("capture", "focusSleep")
    /\ \E ok \in BOOLEAN :
          IF ok
          THEN /\ \E cs \in ContourLists :
                     LET region == <<center_x - (width \div 2), center_y - (height \div 2),
                                     width, height>>
                     IN  /\ screenshot' = Shot(region, cs)
                         /\ frame' = ToBGR(Shot(region, cs))
               /\ pc' = "detect"
               /\ err' = err
          ELSE /\ pc' = "fatal"
               /\ err' = "capture failed"
               /\ UNCHANGED <<screenshot, frame>>
    /\ UNCHANGED <<slp, envVars, winVars, pb, paused, uiVars, trace, histVars>>

\* lines 92-98
Capture ==
    /\ At("capture", "focusSleep")
    /\ \E ok \in BOOLEAN :
          IF ok
          THEN /\ \E cs \in ContourLists :
                     /\ screenshot' = Shot(bounds, cs)
                     /\ frame' = ToBGR(Shot(bounds, cs))
               /\ pc' = "detect"
               /\ err' = err
          ELSE /\ pc' = "fatal"
               /\ err' = "capture failed"
               /\ UNCHANGED <<screenshot, frame>>
    /\ UNCHANGED <<slp, envVars, winVars, pb, paused, uiVars, trace, histVars>>

\* variant: a frame without contours raises
Detect_m ==
    /\ pc = "detect"
    /\ IF frame.contours = <<>>
       THEN /\ pc' = "fatal"
            /\ err' = "detection failed"
            /\ frame' = frame
       ELSE /\ frame' = [frame EXCEPT !.drawn = ContourLoop(frame.contours, 1, frame.drawn)]
            /\ pc' = "show"
            /\ err' = err
    /\ UNCHANGED <<slp, envVars, winVars, pb, paused, screenshot, uiVars, trace, histVars>>

\* variant: a detected marker is clicked
Detect_click ==
    /\ pc = "detect"
    /\ frame' = [frame EXCEPT !.drawn = ContourLoop(frame.contours, 1, frame.drawn)]
    /\ trace' = IF ContourLoop(frame.contours, 1, {}) # {}
                THEN trace \o << Down("mouse", "left", frame.contours[1].x, frame.contours[1].y),
                                 Up("mouse", "left", frame.contours[1].x, frame.contours[1].y) >>
                ELSE trace
    /\ pc' = "show"
    /\ UNCHANGED <<slp, envVars, winVars, pb, paused, screenshot, uiVars, err, histVars>>

\* lines 101-116: the contours of the frame, each kept one drawn onto the frame and printed
Detect ==
    /\ pc = "detect"
    /\ frame' = [frame EXCEPT !.drawn = ContourLoop(frame.contours, 1, frame.drawn)]
    /\ pc' = "show"
    /\ UNCHANGED <<slp, envVars, winVars, pb, paused, screenshot, uiVars, trace, err, histVars>>

\* line 119
Show ==
    /\ pc = "show"
    /\ liveWin' = TRUE
    /\ pc' = "quitPoll"
    /\ UNCHANGED <<slp, envVars, winVars, pb, paused, imgVars, lastKey, pausedWin, trace,
                   err, histVars>>

\* variant: the next tick starts without the sleep of line 126
QuitPoll_m ==
    /\ pc = "quitPoll"
    /\ \E k \in Keys :
          /\ lastKey' = k
          /\ pc' = IF IsQuit(k) THEN "cleanup" ELSE "loopTop"
    /\ UNCHANGED <<slp, envVars, winVars, pb, paused, imgVars, pausedWin, liveWin, trace, err,
                   histVars>>

\* lines 122-126
QuitPoll ==
    /\ pc = "quitPoll"
    /\ \E k \in Keys :
          /\ lastKey' = k
          /\ IF IsQuit(k)
             THEN /\ pc' = "cleanup"
                  /\ slp' = slp
             ELSE /\ slp' = TickSleep
                  /\ pc' = "tickSleep"
    /\ UNCHANGED <<envVars, winVars, pb, paused, imgVars, pausedWin, liveWin, trace, err,
                   histVars>>

\* line 129
Cleanup ==
    /\ pc = "cleanup"
    /\ pausedWin' = FALSE
    /\ liveWin' = FALSE
    /\ pc' = "done"
    /\ UNCHANGED <<slp, envVars, winVars, pb, paused, imgVars, lastKey, trace, err, histVars>>

----------------------------------------------------------------------------
(* The environment *)

\* SIGINT: KeyboardInterrupt is raised at the current statement, nothing catches
\* it and the process exits; the images it held are freed with it
Interrupt ==
    /\ pc \notin Terminal
    /\ pc' = "interrupted"
    /\ err' = "KeyboardInterrupt"
    /\ screenshot' = NoFrame
    /\ frame' = NoFrame
    /\ lastKey' = -1
    /\ slp' = 0
    /\ holdToggles' = 0 /\ edgeInWindow' = FALSE /\ pauseCaptures' = 0
    /\ polledIdle' = FALSE
    /\ UNCHANGED <<envVars, winVars, pb, paused, pausedWin, liveWin, trace>>

PressP ==
    /\ pc \notin Terminal
    /\ ~pKey
    /\ pKey' = TRUE
    /\ holdToggles' = 0
    /\ edgeInWindow' = (pc \in DebouncePcs)
    /\ UNCHANGED <<pc, slp, found, bounds, active, winVars, pb, paused, imgVars, uiVars,
                   trace, err, pauseCaptures, polledIdle>>

ReleaseP ==
    /\ pc \notin Terminal
    /\ pKey
    /\ pKey' = FALSE
    /\ holdToggles' = 0
    /\ edgeInWindow' = FALSE
    /\ UNCHANGED <<pc, slp, found, bounds, active, winVars, pb, paused, imgVars, uiVars,
                   trace, err, pauseCaptures, polledIdle>>

\* another window takes the focus
Deactivate ==
    /\ pc \notin Terminal
    /\ found
    /\ active
    /\ active' = FALSE
    /\ UNCHANGED <<pc, slp, found, bounds, pKey, winVars, pb, paused, imgVars, uiVars,
                   trace, err, histVars>>

\* the window is moved or resized
MoveWindow ==
    /\ pc \notin Terminal
    /\ found
    /\ \E b \in WinBounds \ {bounds} : bounds' = b
    /\ UNCHANGED <<pc, slp, found, active, pKey, winVars, pb, paused, imgVars, uiVars,
                   trace, err, histVars>>

----------------------------------------------------------------------------
Next ==
    \/ Tick
    \/ GetWindowData
    \/ GetTitlePos
    \/ CallPressButton
    \/ PBDown
    \/ PBUp
    \/ StartupSettle
    \/ EnterLoop
    \/ CheckToggle
    \/ Branch
    \/ PausedCapture
    \/ PausedShow
    \/ PausedPoll
    \/ PausedResume
    \/ Focus
    \/ Capture
    \/ Detect
    \/ Show
    \/ QuitPoll
    \/ Cleanup
    \/ Interrupt
    \/ PressP
    \/ ReleaseP
    \/ Deactivate
    \/ MoveWindow

Spec == Init /\ [][Next]_vars

----------------------------------------------------------------------------
(* press_button on its own, for every kind, position and pair of delays *)

DispatchDelays == {0, HoldSleep, StartSleep}
DispatchCoords == {<<100, 200>>, <<7, 9>>}
DispatchCalls ==
    { [type |-> t, x |-> c[1], y |-> c[2], d1 |-> a, d2 |-> b, ret |-> "returned"] :
        t \in IrisuButton, c \in DispatchCoords, a \in DispatchDelays, b \in DispatchDelays }

InitDispatch ==
    /\ Fresh
    /\ found = TRUE
    /\ bounds = <<100, 100, 800, 600>>
    /\ active = TRUE
    /\ pb \in DispatchCalls
    /\ slp = pb.d1
    /\ trace = <<Delay(0)>>
    /\ pc = "pb_sleep1"

NextDispatch ==
    \/ Tick
    \/ PBDown
    \/ PBUp
    \/ Interrupt

SpecDispatch == InitDispatch /\ [][NextDispatch]_vars

----------------------------------------------------------------------------
(* Properties *)

StartupPcs == {"start", "line57", "line60", "pb_sleep1", "pb_hold", "line61", "settle"}
LoopPcs == {"loopTop", "toggleSleep", "branch", "pCapture", "pShow", "pPoll",
            "resumeSleep", "focus", "focusSleep", "capture", "detect", "show",
            "quitPoll", "tickSleep", "cleanup", "done"}
PostDetectPcs == {"show", "quitPoll", "tickSleep", "cleanup", "done"}

IsInput(e) == e.kind \in {"down", "up"}
Downs(t) == {i \in 1..Len(t) : t[i].kind = "down"}
Ups(t) == {i \in 1..Len(t) : t[i].kind = "up"}

\* C1: the toggle is debounced: a press-edge of 'p' that falls inside the 0.5s
\* debounce window is ignored, so the Running/Paused state never flips on a
\* key whose press-edge occurred inside the window.
C1_EdgeInWindowIgnored ==
    [][paused' # paused => ~edgeInWindow]_vars

\* C2: transitions are edge-triggered: one continuous hold of 'p', however
\* long, flips the Running/Paused state at most once.
C2_OneFlipPerHold ==
    holdToggles <= 1

\* C3: while Paused the script only captures one frame, shows it in the paused
\* preview and polls the toggle key: no input event is dispatched, no
\* activation is requested, no contour is drawn or detected.
C3_PausedIsQuiet ==
    [][paused =>
          /\ trace' = trace
          /\ pc' \in {"toggleSleep", "pCapture", "pShow", "pPoll", "resumeSleep",
                      "fatal", "interrupted"}
          /\ (frame' = frame \/ frame'.drawn = {})
          /\ pauseCaptures' <= 1
          /\ (active' # active => ~active')
          /\ liveWin' = liveWin]_vars

C3_Witness ==
    /\ paused
    /\ pc = "pPoll"
    /\ pauseCaptures = 1
    /\ pausedWin
    /\ frame.contours # <<>>

\* C4: press_button for a left click at (x, y) with delays d1, d2 has produced,
\* when it returns, exactly: a delay of at least d1, the left-button down at
\* (x, y), a delay of at least d2, the left-button up at (x, y).
C4_LeftClickSequence ==
    (pc = "returned" /\ pb.type = LClick) =>
        /\ Len(trace) = 4
        /\ trace[1].kind = "delay" /\ trace[1].n >= pb.d1
        /\ trace[2] = Down("mouse", "left", pb.x, pb.y)
        /\ trace[3].kind = "delay" /\ trace[3].n >= pb.d2
        /\ trace[4] = Up("mouse", "left", pb.x, pb.y)

C4_Witness ==
    /\ pc = "returned"
    /\ pb.type = LClick /\ pb.x = 100 /\ pb.y = 200
    /\ pb.d1 = 10 /\ pb.d2 = 1
    /\ Len(trace) = 4
    /\ trace[1].n = 10 /\ trace[3].n = 1

\* C5: down and up events are paired on every exit path: once the script has
\* stopped, every down event in the trace has its up event.
C5_DownUpPaired ==
    pc \in Terminal => Cardinality(Downs(trace)) = Cardinality(Ups(trace))

\* C6: the startup sequence dispatches exactly one left click (1s pre-delay,
\* 0.1s hold) at (center_x, center_y + 20), then settles 3s, before the first
\* tick, which begins Running; e.g. (500, 420) for the centre (500, 400).
C6_StartupSequence ==
    /\ pc \in StartupPcs =>
          /\ ~paused
          /\ Len(SelectSeq(trace, IsInput)) <= 2
          /\ \A i \in Downs(trace) : trace[i] = Down("mouse", "left", center_x, center_y + 20)
    /\ pc \in LoopPcs =>
          /\ Len(trace) = 5
          /\ trace[1].kind = "delay" /\ trace[1].n >= 10
          /\ trace[2] = Down("mouse", "left", center_x, center_y + 20)
          /\ trace[3].kind = "delay" /\ trace[3].n >= 1
          /\ trace[4] = Up("mouse", "left", center_x, center_y + 20)
          /\ trace[5].kind = "delay" /\ trace[5].n >= 30
          /\ (center_x = 500 /\ center_y = 400 => trace[2].x = 500 /\ trace[2].y = 420)
    /\ pc = "loopTop" /\ ~liveWin /\ ~pausedWin => ~paused

C6_Witness ==
    /\ pc = "loopTop"
    /\ ~paused /\ ~liveWin /\ ~pausedWin
    /\ center_x = 500 /\ center_y = 400
    /\ trace[2] = Down("mouse", "left", 500, 420)
    /\ trace[4] = Up("mouse", "left", 500, 420)

\* C7: with no window of the configured title the script stops with the
\* window-not-found error before the loop: no input event, no capture, no
\* preview, and the pause state machine is never entered.
C7_NoWindowIsFatal ==
    ~found =>
        /\ pc \in {"start", "fatal", "interrupted"}
        /\ (pc = "fatal" => err = "window not found")
        /\ trace = <<>>
        /\ screenshot = NoFrame /\ frame = NoFrame
        /\ ~pausedWin /\ ~liveWin
        /\ ~paused
        /\ window = "none"

C7_Witness ==
    ~found /\ pc = "fatal" /\ err = "window not found" /\ trace = <<>>

\* C8: the loop is left only by the quit poll of a Running tick that reads 'q':
\* it is never left from Paused, and a 'q' read while Paused is dropped.
C8_QuitOnlyWhileRunning ==
    [][/\ (pc' = "cleanup" /\ pc # "cleanup") =>
              (pc = "quitPoll" /\ ~paused /\ lastKey' \in {113, 1048689})
       /\ paused => pc' \notin {"cleanup", "done"}
       /\ (pc = "pShow" /\ pc' \notin {"pShow", "interrupted"}) => (pc' = "pPoll" /\ paused')]_vars

C8_Witness ==
    paused /\ pc = "pPoll" /\ lastKey = 113

\* C9: a bounding rectangle (x, y, w, h) is kept (drawn and printed) if and
\* only if 0.1 < w/h < 10.0 and w > 50 and h > 50.
C9_MarkerFilter ==
    pc \in PostDetectPcs =>
        \A i \in 1..Len(frame.contours) :
            LET w == frame.contours[i].w
                h == frame.contours[i].h
            IN  i \in frame.drawn <=> (h < 10 * w /\ w < 10 * h /\ w >= 51 /\ h >= 51)

C9_Witness ==
    /\ pc = "show"
    /\ frame.contours = <<Rect(0, 0, 52, 510)>>
    /\ frame.drawn = {1}

\* C10: detection leaves the captured frame's pixel data unchanged: after the
\* detection pass the frame still is the converted screenshot.
C10_FrameUnchanged ==
    pc \in PostDetectPcs => frame = ToBGR(screenshot)

RunningTickPcs == {"focus", "focusSleep", "capture", "detect", "show", "quitPoll", "tickSleep"}

\* C11: detection never fails: the detection pass of any frame, one without
\* contours included, ends without an error at the live-view render, and a
\* frame without contours gives no candidate; the tick goes on to the quit poll.
C11_DetectionNeverFails ==
    [][/\ (pc = "detect" /\ pc' \notin {"detect", "interrupted"}) =>
              /\ pc' = "show"
              /\ err' = "none"
              /\ (frame.contours = <<>> => frame'.drawn = {})
       /\ (pc = "show" /\ pc' \notin {"show", "interrupted"}) =>
              (pc' = "quitPoll" /\ liveWin' /\ err' = "none")]_vars

C11_Witness ==
    /\ pc = "quitPoll"
    /\ frame.contours = <<>> /\ frame.drawn = {}
    /\ liveWin
    /\ err = "none"

\* C12: preview windows are released on every exit path: once the script has
\* stopped by quit or by a fatal error no preview window is left open, and
\* none of the paused preview is left when a tick starts after a resume.
C12_WindowsReleased ==
    /\ pc \in {"done", "fatal"} => (~pausedWin /\ ~liveWin)
    /\ pc = "loopTop" => ~pausedWin

\* C13: the paused preview window is closed before the next Running tick
\* starts: no step of a Running tick runs while it is open.
C13_PausedPreviewClosed ==
    pc \in RunningTickPcs \cup {"loopTop", "branch"} => ~pausedWin

C13_Witness ==
    /\ pc = "focus"
    /\ ~paused
    /\ pauseCaptures = 1
    /\ ~pausedWin

\* C14 (as stated): while Paused the preview is refreshed: once a pass of the
\* poll loop has found the key up, the preview has been captured again.
C14_PreviewRefreshed ==
    (pc = "pPoll" /\ polledIdle) => pauseCaptures >= 2

\* C14 (amended): while Paused the preview is frozen: the one frame captured on
\* entering the pause episode is the frame shown, however long the poll lasts.
C14_PreviewFrozen ==
    pc = "pPoll" =>
        /\ pauseCaptures = 1
        /\ pausedWin
        /\ frame = ToBGR(screenshot)

C14_Witness ==
    /\ pc = "pPoll"
    /\ paused
    /\ polledIdle
    /\ pauseCaptures = 1

\* C15: in a Running tick the focus check comes before the capture: a window
\* that is not active is activated and 0.1s pass before the capture, an active
\* window is captured at once without an activation request.
C15_FocusBeforeCapture ==
    [][/\ (pc' = "capture" /\ pc # "capture") => (pc = "focus" /\ active /\ active')
       /\ (pc' = "focusSleep" /\ pc # "focusSleep") =>
              (pc = "focus" /\ ~active /\ active' /\ slp' = 1)
       /\ (pc' = "detect" /\ pc # "detect") =>
              (pc = "capture" \/ (pc = "focusSleep" /\ slp = 0))
       /\ (pc = "focus" /\ pc' \notin {"focus", "interrupted"}) =>
              pc' \in {"capture", "focusSleep"}]_vars

C15_Witness ==
    /\ pc = "focusSleep"
    /\ slp = 0
    /\ active
    /\ ~paused

\* C16 (as stated): over any execution the number of press-and-release
\* actions is exactly one.
C16_ExactlyOnePress ==
    pc \in {"done", "fatal"} =>
        (Cardinality(Downs(trace)) = 1 /\ Cardinality(Ups(trace)) = 1)

\* C16 (amended): no input event is dispatched in any tick, whatever is
\* detected; the number of press-and-release actions is at most one, and
\* exactly one in every execution that reaches the tick loop.
C16_NoInputInLoop ==
    [][/\ pc \in LoopPcs => trace' = trace
       /\ Cardinality(Downs(trace')) <= 1
       /\ Cardinality(Ups(trace')) <= 1
       /\ pc' \in LoopPcs =>
              (Cardinality(Downs(trace')) = 1 /\ Cardinality(Ups(trace')) = 1)]_vars

C16_Witness ==
    /\ pc = "quitPoll"
    /\ frame.drawn # {}
    /\ Cardinality(Downs(trace)) = 1
    /\ Cardinality(Ups(trace)) = 1

\* C17: press_button is kind-faithful: left down/up at (x, y) for LClick,
\* right down/up at (x, y) for RClick, escape key down/up without (x, y) for
\* Esc; one down and one up per call, of the same device and kind.
C17_KindFaithful ==
    pc = "returned" =>
        /\ Cardinality(Downs(trace)) = 1 /\ Cardinality(Ups(trace)) = 1
        /\ Downs(trace) = {2} /\ Ups(trace) = {4}
        /\ trace[2].dev = trace[4].dev /\ trace[2].btn = trace[4].btn
        /\ pb.type = LClick =>
              /\ trace[2] = Down("mouse", "left", pb.x, pb.y)
              /\ trace[4] = Up("mouse", "left", pb.x, pb.y)
        /\ pb.type = RClick =>
              /\ trace[2] = Down("mouse", "right", pb.x, pb.y)
              /\ trace[4] = Up("mouse", "right", pb.x, pb.y)
        /\ pb.type = Esc =>
              /\ trace[2] = Down("key", "esc", 0, 0)
              /\ trace[4] = Up("key", "esc", 0, 0)

C17_Witness ==
    /\ pc = "returned"
    /\ pb.type = RClick /\ pb.x = 100 /\ pb.y = 200
    /\ trace[2] = Down("mouse", "right", 100, 200)
    /\ trace[4] = Up("mouse", "right", 100, 200)

\* C18: every capture takes the window's bounds as they are at that capture,
\* while the window data and title positions read at startup never change.
C18_LiveBoundsCachedTitle ==
    [][/\ (pc \in {"capture", "focusSleep", "pCapture"} /\ pc' \in {"detect", "pShow"}) =>
              (screenshot'.region = bounds /\ frame'.region = bounds)
       /\ pc \in LoopPcs =>
              /\ title_positions' = title_positions
              /\ center_x' = center_x /\ center_y' = center_y
              /\ width' = width /\ height' = height]_vars

C18_Witness ==
    /\ pc = "detect"
    /\ center_x = 500 /\ center_y = 400
    /\ title_positions[1] = <<500, 420>>
    /\ bounds = <<141, 120, 801, 601>>
    /\ screenshot.region = <<141, 120, 801, 601>>

\* C19: the toggle check is the first step of a tick; a tick in which the
\* pause toggle registers goes to the paused branch only; a Running tick runs
\* focus check, capture, detection, live-view render, quit poll, 0.1s sleep in
\* this order, the quit poll only once the frame is shown.
C19_TickOrder ==
    [][(pc' # pc /\ pc' \notin {"interrupted", "fatal"}) =>
          /\ pc \in {"loopTop", "tickSleep"} => pc' \in {"toggleSleep", "branch"}
          /\ (paused' /\ ~paused) => (pc \in {"loopTop", "tickSleep"} /\ pc' = "toggleSleep")
          /\ pc = "toggleSleep" => (paused /\ pc' = "pCapture")
          /\ pc = "branch" => (~paused /\ pc' = "focus")
          /\ pc = "focus" => pc' \in {"focusSleep", "capture"}
          /\ pc \in {"focusSleep", "capture"} => pc' = "detect"
          /\ pc = "detect" => pc' = "show"
          /\ pc = "show" => (pc' = "quitPoll" /\ liveWin')
          /\ pc = "quitPoll" => (liveWin /\ pc' \in {"tickSleep", "cleanup"})
          /\ pc' = "tickSleep" => (pc = "quitPoll" /\ slp' = 1)]_vars

C19_Witness ==
    /\ pc = "tickSleep"
    /\ slp = 0
    /\ liveWin
    /\ ~paused
====
